---- MODULE Spec2Model ----
(***************************************************************************)
(* Model of the video transcoding service: the job orchestrator of         *)
(* backend/routes/transcode.js (POST /start and the read-side routes),     *)
(* the identity key of backend/routes/auth_cognito.js and the upload path  *)
(* of the presign-upload route in backend/aws/ssm-config.js.               *)
(* transcode.js holds two revisions of the router; the model follows the   *)
(* current one (POST /start reading its source from the bucket) and takes  *)
(* GET /download/:id from the earlier one.  StoreSpec runs the two table   *)
(* helpers putMeta and patchMeta on their own.                             *)
(*                                                                         *)
(* Strings are sequences of symbols.  A symbol is one character ("a",      *)
(* "#", "/") or a fixed piece of text that the code writes as a literal    *)
(* ("videos", "uploads", "output")  or that carries no structure the code  *)
(* inspects (a job id drawn by newId, a timestamp, a sanitized file name). *)
(*                                                                         *)
(* External services (the DynamoDB table, the S3 bucket, ffmpeg, ffprobe,  *)
(* the local file system) are state of the model; every call to one of     *)
(* them either takes effect or throws, chosen nondeterministically.        *)
(***************************************************************************)
EXTENDS Integers, Sequences, FiniteSets, TLC

VARIABLES
  meta,    \* the DynamoDB table: composite sort key (videoId) -> item
  blob,    \* the S3 bucket: object key -> object
  files,   \* the scratch directory tmpDir: file name -> content
  job,     \* one POST /start request per slot: the handler's locals and position
  derived, \* account (sub) -> the owner keys derived for its requests so far
  secrets, \* lib/secrets.js: _cache, the calls in flight, process.env, the secret store
  dynamo,  \* aws/initDynamo.js: the live table and the position of the start-up check
  wipe     \* scripts/ddb_verify_pk.js: the user's items and the position of the script

vars == <<meta, blob, files, job, derived, secrets, dynamo, wipe>>

\* The state of the start-up modules and of the maintenance script.
ops == <<secrets, dynamo, wipe>>

\* ---------------------------------------------------------------- bounds

\* Number of POST /start requests in a behaviour.
MaxJobs == 2

Slots == 1..MaxJobs

\* ------------------------------------------------------- strings, helpers

NoStr == <<>>

Truthy(s) == s # NoStr

\* String.prototype.toLowerCase on the alphabet of the model.
LowerSym(c) ==
  CASE c = "A" -> "a"
    [] c = "B" -> "b"
    [] c = "E" -> "e"
    [] c = "X" -> "x"
    [] c = "AVI" -> "avi"
    [] c = "TRUE" -> "true"
    [] c = "True" -> "true"
    [] OTHER -> c

ToLower(s) == [i \in 1..Len(s) |-> LowerSym(s[i])]

\* begins_with / String.prototype.startsWith
StartsWith(s, p) == Len(p) <= Len(s) /\ SubSeq(s, 1, Len(p)) = p

\* Character order of the sort key (DynamoDB orders strings by UTF-8 bytes).
SymCode(c) ==
  CASE c = "#" -> 35
    [] c = "%" -> 37
    [] c = "1" -> 49
    [] c = "2" -> 50
    [] c = "3" -> 51
    [] c = "A" -> 65
    [] c = "B" -> 66
    [] c = "a" -> 97
    [] c = "b" -> 98
    [] OTHER -> 127

RECURSIVE StrLess(_, _)
StrLess(s, t) ==
  IF t = <<>> THEN FALSE
  ELSE IF s = <<>> THEN TRUE
  ELSE IF SymCode(s[1]) # SymCode(t[1]) THEN SymCode(s[1]) < SymCode(t[1])
  ELSE StrLess(Tail(s), Tail(t))

\* The elements of a set of strings, largest first (ScanIndexForward: false).
RECURSIVE Descending(_)
Descending(S) ==
  IF S = {} THEN <<>>
  ELSE LET top == CHOOSE s \in S : \A t \in S \ {s} : StrLess(t, s)
       IN  <<top>> \o Descending(S \ {top})

\* Mutant: '%' passes unescaped.
EscapeSymKeepsPercent(c) ==
  CASE c = "#" -> <<"%", "2", "3">>
    [] c = "/" -> <<"%", "2", "F">>
    [] OTHER -> <<c>>

\* encodeURIComponent: unreserved characters pass, the others are escaped.
EscapeSym(c) ==
  CASE c = "#" -> <<"%", "2", "3">>
    [] c = "%" -> <<"%", "2", "5">>
    [] c = "/" -> <<"%", "2", "F">>
    [] OTHER -> <<c>>

RECURSIVE encodeURIComponent(_)
encodeURIComponent(s) ==
  IF s = <<>> THEN <<>> ELSE EscapeSym(s[1]) \o encodeURIComponent(Tail(s))

\* A record (function on field names) with the fields of `upd` written over it.
Merge(rec, upd) ==
  [k \in DOMAIN rec \cup DOMAIN upd |-> IF k \in DOMAIN upd THEN upd[k] ELSE rec[k]]

Without(f, ks) == [k \in DOMAIN f \ ks |-> f[k]]

Field(rec, k, default) == IF k \in DOMAIN rec THEN rec[k] ELSE default

\* ------------------------------------------------------------ environment

S3_BUCKET == <<"bucket">>
S3_PREFIX == <<"videos">>
FIXED_PK_VAL == <<"n8870349@qut.edu.au">>

CLIENT_ID == <<"client">>

\* Token payloads of the accounts of the pool, issued to this client.  An
\* access token carries the username and no email claim.
Payloads ==
  { [token_use |-> "access", client_id |-> CLIENT_ID, aud |-> NoStr,
     sub |-> <<"s1">>, username |-> <<"A">>, email |-> NoStr],
    [token_use |-> "access", client_id |-> CLIENT_ID, aud |-> NoStr,
     sub |-> <<"s2">>, username |-> <<"a", "#", "b">>, email |-> NoStr] }

\* A payload with no sub, username or email.
Anonymous ==
  [token_use |-> "access", client_id |-> CLIENT_ID, aud |-> NoStr,
   sub |-> NoStr, username |-> NoStr, email |-> NoStr]

\* A payload naming an account that has no token of this client.
Stranger(client) ==
  [token_use |-> "access", client_id |-> client, aud |-> NoStr,
   sub |-> <<"s9">>, username |-> <<"eve">>, email |-> NoStr]

\* Tokens a caller can present: `signed` is whether jwtVerify accepts the
\* signature, issuer and expiry.
Tokens ==
  { [signed |-> TRUE, payload |-> p] : p \in Payloads } \cup
  { [signed |-> TRUE,  payload |-> Anonymous],
    [signed |-> FALSE, payload |-> Stranger(CLIENT_ID)],
    [signed |-> TRUE,  payload |-> Stranger(<<"other">>)] }

\* Values of the Authorization header: absent, or a scheme and credentials.
Headers ==
  { [scheme |-> "", token |-> [signed |-> FALSE, payload |-> Anonymous]] } \cup
  { [scheme |-> "Bearer", token |-> t] : t \in Tokens }

\* Accounts of the user pool: POST /register takes any username and email.
\* The first two are the accounts whose access tokens are in Tokens.
Accounts ==
  { [sub |-> <<"s1">>, username |-> <<"A">>, email |-> <<"e", "@", "x">>],
    [sub |-> <<"s2">>, username |-> <<"a", "#", "b">>, email |-> <<"b", "@", "x">>],
    [sub |-> <<"s3">>, username |-> <<"a">>, email |-> <<"c", "@", "x">>],
    [sub |-> <<"s4">>, username |-> <<"E", "@", "X">>, email |-> <<"d", "@", "x">>] }

Subs == { a.sub : a \in Accounts }

\* The two tokens a login returns for an account: the access token carries
\* username and client_id, the id token cognito:username, email and aud.
AccessTokenOf(account) ==
  [signed |-> TRUE,
   payload |-> [token_use |-> "access", client_id |-> CLIENT_ID, aud |-> NoStr,
                sub |-> account.sub, username |-> account.username,
                email |-> NoStr]]

IdTokenOf(account) ==
  [signed |-> TRUE,
   payload |-> [token_use |-> "id", client_id |-> NoStr, aud |-> CLIENT_ID,
                sub |-> account.sub, username |-> account.username,
                email |-> account.email]]

\* Authorization headers of the logged-in accounts, with either token.
LoginHeaders ==
  { [scheme |-> "Bearer", token |-> AccessTokenOf(a)] : a \in Accounts } \cup
  { [scheme |-> "Bearer", token |-> IdTokenOf(a)] : a \in Accounts }

\* Job ids newId can return (Date.now() + '-' + random): digits and '-' only.
JobIds == { <<"1">>, <<"2">> }

\* Values of req.params.id: any text the caller writes into the URL.
ParamIds == JobIds \cup { <<"b", "#", "1">> }

\* Values of req.body.format.
Formats == { <<"webm">>, <<"AVI">> }

\* ------------------------------------------------- identity (auth_cognito)

\* The outcome of a verification that throws.
Thrown == [ok |-> FALSE]

\* jwtVerify(token, jwks, { issuer, audience }): TRUE when it does not throw.
jwtVerify(token, audience) ==
  token.signed /\ (audience = NoStr \/ token.payload.aud = audience)

\* Mutant: an access token issued to any client is accepted.
verifyAsAccessTokenAnyClient(token) ==
  IF jwtVerify(token, NoStr) /\ token.payload.token_use = "access"
  THEN [ok |-> TRUE, kind |-> "access", sub |-> token.payload.sub,
        username |-> token.payload.username, email |-> token.payload.email]
  ELSE Thrown

verifyAsAccessToken(token) ==
  IF /\ jwtVerify(token, NoStr)
     /\ token.payload.token_use = "access"
     /\ token.payload.client_id = CLIENT_ID
  THEN [ok |-> TRUE, kind |-> "access", sub |-> token.payload.sub,
        username |-> token.payload.username, email |-> token.payload.email]
  ELSE Thrown

verifyAsIdToken(token) ==
  IF jwtVerify(token, CLIENT_ID) /\ token.payload.token_use = "id"
  THEN [ok |-> TRUE, kind |-> "id", sub |-> token.payload.sub,
        username |-> token.payload.username, email |-> token.payload.email]
  ELSE Thrown

\* verifyCognitoJwt: the token is tried as an access token, then as an id token.
verifyCognitoJwt(token) ==
  LET access == verifyAsAccessToken(token)
  IN  IF access.ok THEN access ELSE verifyAsIdToken(token)

\* authRequired: the 401 answer, or next() (code 0) with req.user set.
authRequired(req) ==
  IF req.scheme # "Bearer"
  THEN [code |-> 401, error |-> "Missing bearer token"]
  ELSE LET verified == verifyCognitoJwt(req.token)
       IN  IF ~verified.ok
           THEN [code |-> 401, error |-> "Invalid/expired token"]
           ELSE LET email    == ToLower(verified.email)
                    username == ToLower(verified.username)
                    sub      == verified.sub
                    identityKey == IF Truthy(email) THEN email
                                   ELSE IF Truthy(username) THEN username ELSE sub
                IN  IF ~Truthy(identityKey)
                    THEN [code |-> 401, error |-> "Token missing identity"]
                    ELSE [code |-> 0,
                          user |-> [sub |-> sub, email |-> email,
                                    username |-> username,
                                    identityKey |-> identityKey,
                                    tokenKind |-> verified.kind]]

\* The requests that pass the middleware.
Users == { authRequired(r).user : r \in { q \in Headers : authRequired(q).code = 0 } }

\* ownerKeyFromReq; NoStr stands for the thrown 'Missing identity in token'.
ownerKeyFromReq(user) ==
  LET k == IF Truthy(user.identityKey) THEN user.identityKey ELSE user.email
  IN  IF Truthy(k) THEN ToLower(k) ELSE NoStr

OwnerKeys == { ownerKeyFromReq(u) : u \in Users }

\* ------------------------------------------------------------ key scheme

\* newId: the ids one call can return.
newId == JobIds

\* Mutant: the requested format is dropped for the default.
guessExtDefault(fmt) == IF Truthy(fmt) THEN <<"mp4">> ELSE <<"mp4">>

guessExt(fmt) == ToLower(IF Truthy(fmt) THEN fmt ELSE <<"mp4">>)

composeVideoId(ownerKey, id) == ownerKey \o <<"#">> \o id

outKeyFor(ownerKey, id, ext) ==
  S3_PREFIX \o <<"/">> \o encodeURIComponent(ownerKey) \o <<"/">> \o id
            \o <<"/", "output", ".">> \o ext

\* sanitizeName of the upload route: each run of characters outside
\* [A-Za-z0-9._-] becomes one '_'.
UnsafeSym(c) == c \in {"#", "/", "%", " "}

RECURSIVE sanitizeName(_)
sanitizeName(name) ==
  IF name = <<>> THEN <<>>
  ELSE IF UnsafeSym(name[1])
       THEN IF Len(name) > 1 /\ UnsafeSym(name[2])
            THEN sanitizeName(Tail(name))
            ELSE <<"_">> \o sanitizeName(Tail(name))
       ELSE <<name[1]>> \o sanitizeName(Tail(name))

\* The object key POST /presign-upload hands out for an upload.
uploadKeyFor(ownerKey, ts, filename) ==
  S3_PREFIX \o <<"/">> \o encodeURIComponent(ownerKey) \o <<"/", "uploads", "/">>
            \o ts \o <<"-">> \o sanitizeName(filename)

\* The caller's own part of the bucket: <prefix>/<escaped ownerKey>/
ownerPath(ownerKey) == S3_PREFIX \o <<"/">> \o encodeURIComponent(ownerKey) \o <<"/">>

\* The owners who have uploaded through a presigned URL before the first job
\* starts.
Uploaders == { o \in OwnerKeys : o = <<"a", "#", "b">> }

\* Their objects: one per uploader, holding that owner's bytes.
UploadKeys == { uploadKeyFor(o, <<"t0">>, <<"in", ".", "mov">>) : o \in Uploaders }

\* Values of req.body.s3Key: any key of the bucket, or none.
BodyKeys == UploadKeys \cup { NoStr }

\* Values of req.body.originalFilename.
Filenames == { <<"in", ".", "mov">> }

\* path.extname without its dot: the text after the last '.', unless the name
\* has no '.' or only a leading one.
ExtName(name) ==
  LET dots == { i \in 2..Len(name) : name[i] = "." }
  IN  IF dots = {} THEN <<>>
      ELSE SubSeq(name, (CHOOSE i \in dots : \A k \in dots : k <= i) + 1, Len(name))

\* path.basename(name, suffix): the last path segment, its suffix removed.
BaseName(name, suffix) ==
  LET cuts == { i \in 1..Len(name) : name[i] = "/" }
      from == IF cuts = {} THEN 1 ELSE (CHOOSE i \in cuts : \A k \in cuts : k <= i) + 1
      last == SubSeq(name, from, Len(name))
      n    == Len(last) - Len(suffix)
  IN  IF n > 0 /\ SubSeq(last, n + 1, Len(last)) = suffix THEN SubSeq(last, 1, n)
      ELSE last

safeFilename(name, fallbackExt) ==
  LET found == ExtName(name)
      ext   == IF Truthy(found) THEN found ELSE fallbackExt
      whole == IF Truthy(name) THEN name ELSE <<"video", ".">> \o ext
      clean == sanitizeName(BaseName(whole, <<".">> \o ext))
      base  == IF Truthy(clean) THEN clean ELSE <<"video">>
  IN  base \o <<".">> \o ext

ContentTypeOf(ext) ==
  CASE ext = <<"mp4">>  -> "video/mp4"
    [] ext = <<"webm">> -> "video/webm"
    [] ext = <<"mov">>  -> "video/quicktime"
    [] OTHER -> "application/octet-stream"

\* Scratch file names under tmpDir.
inputPathOf(id) == id \o <<".src">>
outPathOf(id, ext) == id \o <<".out.">> \o ext

\* -------------------------------------------------------- metadata store

\* putMeta: PutCommand writes the whole item under the composite key.
putMeta(table, ownerKey, ownerEmail, id, item) ==
  LET base == [pk |-> FIXED_PK_VAL, videoId |-> composeVideoId(ownerKey, id),
               id |-> id, ownerKey |-> ownerKey]
      mail == IF Truthy(ownerEmail) THEN [ownerEmail |-> ownerEmail] ELSE <<>>
      Item == Merge(Merge(base, mail), item)
  IN  (composeVideoId(ownerKey, id) :> Item) @@ table

\* Mutant: the patch writes every named field, the key attributes included.
patchMetaAllFields(table, ownerKey, id, updates) ==
  LET key == composeVideoId(ownerKey, id)
      old == IF key \in DOMAIN table THEN table[key]
             ELSE [pk |-> FIXED_PK_VAL, videoId |-> key]
  IN  IF DOMAIN updates = {} THEN table
      ELSE (key :> Merge(old, updates)) @@ table

\* patchMeta: SET of every named field except the two key attributes; no call
\* at all when nothing is left.  UpdateCommand carries no condition, so the
\* table creates the item when the key has none.
patchMeta(table, ownerKey, id, updates) ==
  LET sets == Without(updates, {"pk", "videoId"})
      key  == composeVideoId(ownerKey, id)
      old  == IF key \in DOMAIN table THEN table[key]
              ELSE [pk |-> FIXED_PK_VAL, videoId |-> key]
  IN  IF DOMAIN sets = {} THEN table
      ELSE (key :> Merge(old, sets)) @@ table

\* getMeta: r.Item, or no item.
NoItem == <<>>

getMeta(table, ownerKey, id) ==
  LET key == composeVideoId(ownerKey, id)
  IN  IF key \in DOMAIN table THEN table[key] ELSE NoItem

\* ------------------------------------------------------------- media probe

\* What ffprobe can print for an output file (after JSON.parse).
ProbeJson ==
  { [streams |-> << [codec_type |-> "audio", codec_name |-> "aac"],
                    [codec_type |-> "video", width |-> "1920", height |-> "1080",
                     codec_name |-> "vp9", avg_frame_rate |-> "30/1"] >>,
     format  |-> [duration |-> "12.5"]] }

Null == "null"

\* (json.streams || []).find(s => s.codec_type === t) || {}
FindStream(json, t) ==
  LET hits == { i \in 1..Len(json.streams) : json.streams[i].codec_type = t }
  IN  IF hits = {} THEN <<>>
      ELSE json.streams[CHOOSE i \in hits : \A k \in hits : i <= k]

\* n / d of an avg_frame_rate 'n/d'.
FrameRate(r) == IF r = "30/1" THEN "30" ELSE Null

extractVideoMeta(json) ==
  LET video == FindStream(json, "video")
      audio == FindStream(json, "audio")
      fmt   == json.format
      rate  == Field(video, "avg_frame_rate", Null)
      fps   == IF rate # Null /\ rate # "0/0" THEN FrameRate(rate) ELSE Null
      duration == IF "duration" \in DOMAIN fmt THEN fmt.duration
                  ELSE Field(video, "duration", Null)
  IN  [width      |-> Field(video, "width", Null),
       height     |-> Field(video, "height", Null),
       codec      |-> Field(video, "codec_name", Null),
       audioCodec |-> Field(audio, "codec_name", Null),
       fps        |-> fps,
       duration   |-> duration,
       bitrate    |-> Field(fmt, "bit_rate", Null)]

TechFields == {"width", "height", "codec", "audioCodec", "fps", "duration", "bitrate"}

\* ------------------------------------------------------------------ state

\* res before the handler has answered.
NoReply == [code |-> 0]

\* No exit code: ffmpeg has not closed.
NoExit == -1

NoTech == [f \in TechFields |-> Null]

IdleJob ==
  [pc |-> "idle", ownerKey |-> NoStr, ownerEmail |-> NoStr, id |-> NoStr,
   s3Key |-> NoStr, format |-> NoStr, ext |-> NoStr, srcBody |-> NoStr,
   originalFilename |-> NoStr, ffmpeg |-> NoExit, probe |-> "none",
   probed |-> NoTech, err |-> "", res |-> NoReply,
   uploadedAt |-> Null, originalSizeBytes |-> Null]

Init ==
  /\ meta = <<>>
  /\ blob = [k \in UploadKeys |-> [Body |-> k]]
  /\ files = <<>>
  /\ job = [j \in Slots |-> IdleJob]
  /\ derived = [s \in Subs |-> {}]
  /\ secrets = [pc |-> "idle"] /\ dynamo = [pc |-> "idle"] /\ wipe = [pc |-> "idle"]

\* The ids handed out so far.
UsedIds == { job[j].id : j \in { k \in Slots : job[k].pc # "idle" } }

\* The handler of slot j moves to position pc with the locals in `upd`.
Goto(j, pc, upd) ==
  /\ job' = [job EXCEPT ![j] = Merge(Merge(job[j], upd), [pc |-> pc])]
  /\ UNCHANGED <<derived, ops>>

\* The handler of slot j throws msg inside the try block.
Throw(j, msg) == Goto(j, "catch", [err |-> msg])

\* ------------------------------------------------------------ POST /start

\* Values of req.body.uploadedAt: absent (Null), a date new Date() parses, in
\* ISO form or not, and text it does not parse.
ValidDate(t) == t \in {"2020-01-01", "2020-01-01T00:00:00.000Z"}

\* new Date(t).toISOString() of a date that parses.
toISOString(t) ==
  CASE t = "2020-01-01" -> "2020-01-01T00:00:00.000Z"
    [] OTHER -> t

\* Number.isFinite(Number(x)) ? Number(x) : null, for an absent value (Null)
\* or a size written as digits.
NumberOrNull(x) == IF x \in {"7"} THEN x ELSE Null

\* The handler up to its first await: identity, body, id, the queued record.
\* Every request here has passed authRequired, so ownerKeyFromReq does not
\* throw.  The id is new for this owner (time plus a random suffix); another
\* owner may hold the same raw id.  Ids are interchangeable names, so a call
\* returns an id some job holds or the first unused one.
Start(j, user, body, id) ==
  LET ownerKey   == ownerKeyFromReq(user)
      uploadedAtIso == IF body.uploadedAt # Null /\ ValidDate(body.uploadedAt)
                       THEN toISOString(body.uploadedAt) ELSE "now"
      ownerEmail == ToLower(user.email)
      ext        == guessExt(body.format)
      locals     == [ownerKey |-> ownerKey, ownerEmail |-> ownerEmail, id |-> id,
                     s3Key |-> body.s3Key, format |-> body.format, ext |-> ext,
                     originalFilename |-> body.originalFilename,
                     originalSizeBytes |-> body.originalSizeBytes,
                     uploadedAt |-> body.uploadedAt]
      item       == [originalFilename |-> IF Truthy(body.originalFilename)
                                          THEN body.originalFilename
                                          ELSE <<"upload">>,
                     sourceBucket |-> S3_BUCKET,
                     sourceKey |-> body.s3Key,
                     status |-> "queued",
                     progress |-> 0,
                     outputFormat |-> ext,
                     originalSizeBytes |-> NumberOrNull(body.originalSizeBytes),
                     uploadedAt |-> uploadedAtIso,
                     createdAt |-> "now"]
  IN  /\ job[j].pc = "idle"
      /\ j > 1 => job[j - 1].pc # "idle"
      /\ \A k \in Slots : job[k].pc # "idle" =>
                             ~(job[k].ownerKey = ownerKey /\ job[k].id = id)
      /\ \A k \in JobIds : StrLess(k, id) => k \in UsedIds
      /\ UNCHANGED <<blob, files>>
      /\ Truthy(ownerKey)
      /\ \/ /\ ~Truthy(body.s3Key)
            /\ Goto(j, "rejected", [res |-> [code |-> 400]])
            /\ UNCHANGED meta
         \/ /\ Truthy(body.s3Key)
            /\ meta' = putMeta(meta, ownerKey, ownerEmail, id, item)
            /\ Goto(j, "patchDownloading", locals)
         \/ /\ Truthy(body.s3Key)
            /\ Goto(j, "crashed", locals)
            /\ UNCHANGED meta


\* The field sets the pipeline patches into the record.
DownloadingPatch == [status |-> "downloading", progress |-> 5]

\* inputSizeBytes always; uploadedAt only when the client sent none
\* (uploadedAt == null).
SourcePatch(uploadedAt) ==
  IF uploadedAt = Null
  THEN [inputSizeBytes |-> "len", uploadedAt |-> "s3time"]
  ELSE [inputSizeBytes |-> "len"]

\* Mutant: the processing patch names the wrong stage.
ProcessingPatchSkipsStage == [status |-> "uploading", progress |-> 20]

ProcessingPatch == [status |-> "processing", progress |-> 20]

\* Mutant: the probe patch writes a progress below the stage's.
ProbePatchLow(tech) == Merge(tech, [progress |-> 8])

ProbePatch(tech) == Merge(tech, [progress |-> 80])

\* Mutant: the uploading patch moves progress only.
UploadingPatchProgressOnly == [progress |-> 85]

UploadingPatch == [status |-> "uploading", progress |-> 85]

\* Mutant: the done patch forgets the output key.
DonePatchNoKey(outKey) ==
  [status |-> "done", progress |-> 100, fileSize |-> "size",
   outputSizeBytes |-> "size", s3Bucket |-> S3_BUCKET, completedAt |-> "now"]

DonePatch(outKey) ==
  [status |-> "done", progress |-> 100, fileSize |-> "size",
   outputSizeBytes |-> "size", s3Bucket |-> S3_BUCKET, s3Key |-> outKey,
   completedAt |-> "now"]

\* Mutant: the error patch leaves progress as it was.
ErrorPatchFrozen(message) == [status |-> "error", error |-> message]

\* Mutant: the error patch carries no message.
ErrorPatchNoMessage(message) == [status |-> "error", progress |-> 0]

ErrorPatch(message) == [status |-> "error", progress |-> 0, error |-> message]

\* Mutant: every exit code resolves.
ExitAlwaysResolves(code) == code = code

\* Mutant: exit code 1 resolves like exit code 0.
ExitResolvesOnOne(code) == code \in {0, 1}

\* p.on('close', code => code === 0 ? resolve() : reject(...))
ExitResolves(code) == code = 0

\* await patchMeta(... downloading)
PatchDownloading(j) ==
  /\ job[j].pc = "patchDownloading"
  /\ UNCHANGED <<blob, files>>
  /\ \/ /\ meta' = patchMeta(meta, job[j].ownerKey, job[j].id,
                               DownloadingPatch)
        /\ Goto(j, "getObject", <<>>)
     \/ /\ Throw(j, "ddb error")
        /\ UNCHANGED meta

\* await s3.send(GetObjectCommand): the body and its headers, or an error.
GetObject(j) ==
  /\ job[j].pc = "getObject"
  /\ UNCHANGED <<meta, blob, files>>
  /\ \/ /\ job[j].s3Key \in DOMAIN blob
        /\ Goto(j, "patchSource", [srcBody |-> blob[job[j].s3Key].Body])
     \/ Throw(j, "s3 error")

\* The patch of the observed size and time (both are present on a GetObject
\* answer).
PatchSource(j) ==
  /\ job[j].pc = "patchSource"
  /\ UNCHANGED <<blob, files>>
  /\ \/ /\ meta' = patchMeta(meta, job[j].ownerKey, job[j].id,
                               SourcePatch(job[j].uploadedAt))
        /\ Goto(j, "writeSource", <<>>)
     \/ /\ Throw(j, "ddb error")
        /\ UNCHANGED meta

\* The body is piped into inputPath; a stream error may leave a partial file.
WriteSource(j) ==
  /\ job[j].pc = "writeSource"
  /\ UNCHANGED <<meta, blob>>
  /\ \/ /\ files' = (inputPathOf(job[j].id) :> job[j].srcBody) @@ files
        /\ Goto(j, "patchProcessing", <<>>)
     \/ /\ files' = (inputPathOf(job[j].id) :> <<"partial">>) @@ files
        /\ Throw(j, "stream error")
     \/ /\ UNCHANGED files
        /\ Throw(j, "stream error")

PatchProcessing(j) ==
  /\ job[j].pc = "patchProcessing"
  /\ UNCHANGED <<blob, files>>
  /\ \/ /\ meta' = patchMeta(meta, job[j].ownerKey, job[j].id,
                               ProcessingPatch)
        /\ Goto(j, "ffmpeg", <<>>)
     \/ /\ Throw(j, "ddb error")
        /\ UNCHANGED meta

\* What ffmpeg writes for an input.
Transcoded(body, ext) == ext \o <<":">> \o body

\* spawn('ffmpeg', ...): a spawn error, or the process runs and closes with an
\* exit code: 0 with the output written, 1 with a partial output or none (none
\* when the input file is missing).
Ffmpeg(j) ==
  LET inputPath == inputPathOf(job[j].id)
      outPath   == outPathOf(job[j].id, job[j].ext)
      Close(code) ==
        IF ExitResolves(code)
        THEN Goto(j, "probe", [ffmpeg |-> code])
        ELSE Goto(j, "catch", [ffmpeg |-> code, err |-> "ffmpeg failed: 1"])
  IN  /\ job[j].pc = "ffmpeg"
      /\ UNCHANGED <<meta, blob>>
      /\ \/ /\ inputPath \in DOMAIN files
            /\ files' = (outPath :> Transcoded(files[inputPath], job[j].ext)) @@ files
            /\ Close(0)
         \/ /\ inputPath \in DOMAIN files
            /\ files' = (outPath :> <<"partial">>) @@ files
            /\ Close(1)
         \/ /\ UNCHANGED files
            /\ Close(1)
         \/ /\ UNCHANGED files
            /\ Goto(j, "catch", [err |-> "spawn ffmpeg ENOENT"])

\* Mutant: a probe error propagates to the handler's catch block.
ProbeRejectedThrows(j) ==
  Goto(j, "catch", [probe |-> "failed", err |-> "ffprobe failed"])

\* catch (e) { console.warn('ffprobe failed:', ...) }: the rejection of
\* ffprobeJSON (execFile error or JSON.parse error) is logged and dropped.
ProbeRejected(j) == Goto(j, "patchUploading", [probe |-> "failed"])

\* ffprobeJSON(outPath) and extractVideoMeta.
Probe(j) ==
  /\ job[j].pc = "probe"
  /\ UNCHANGED <<meta, blob, files>>
  /\ \/ /\ outPathOf(job[j].id, job[j].ext) \in DOMAIN files
        /\ \E json \in ProbeJson :
              Goto(j, "patchProbe", [probed |-> extractVideoMeta(json)])
     \/ ProbeRejected(j)

\* await patchMeta({...meta, progress: 80}) inside the probe's try block.
PatchProbe(j) ==
  /\ job[j].pc = "patchProbe"
  /\ UNCHANGED <<blob, files>>
  /\ \/ /\ meta' = patchMeta(meta, job[j].ownerKey, job[j].id,
                               ProbePatch(job[j].probed))
        /\ Goto(j, "patchUploading", [probe |-> "ok"])
     \/ /\ Goto(j, "patchUploading", [probe |-> "unpatched"])
        /\ UNCHANGED meta

PatchUploading(j) ==
  /\ job[j].pc = "patchUploading"
  /\ UNCHANGED <<blob, files>>
  /\ \/ /\ meta' = patchMeta(meta, job[j].ownerKey, job[j].id,
                               UploadingPatch)
        /\ Goto(j, "putObject", <<>>)
     \/ /\ Throw(j, "ddb error")
        /\ UNCHANGED meta

\* Mutant: the publish is not awaited; the handler goes on before the object
\* is in the bucket.
PutObjectNotAwaited(j) ==
  /\ job[j].pc = "putObject"
  /\ UNCHANGED <<meta, blob, files>>
  /\ Goto(j, "patchDone", <<>>)

\* fs.statSync(outPath), then await s3.send(PutObjectCommand).
PutObject(j) ==
  LET outPath == outPathOf(job[j].id, job[j].ext)
      outKey  == outKeyFor(job[j].ownerKey, job[j].id, job[j].ext)
      downloadName == safeFilename(job[j].originalFilename, job[j].ext)
  IN  /\ job[j].pc = "putObject"
      /\ UNCHANGED <<meta, files>>
      /\ \/ /\ outPath \notin DOMAIN files
            /\ Throw(j, "ENOENT")
            /\ UNCHANGED blob
         \/ /\ outPath \in DOMAIN files
            /\ blob' = (outKey :> [Body |-> files[outPath],
                                   ContentType |-> ContentTypeOf(job[j].ext),
                                   ContentDisposition |-> downloadName]) @@ blob
            /\ Goto(j, "patchDone", <<>>)
         \/ /\ outPath \in DOMAIN files
            /\ Throw(j, "s3 error")
            /\ UNCHANGED blob

\* fs.unlinkSync of both scratch files, each in its own try.
Unlinked(id, ext) == Without(files, {inputPathOf(id), outPathOf(id, ext)})

\* The handler's locals are gone once it has answered or died.
Ended == [srcBody |-> NoStr, probed |-> NoTech]

\* await patchMeta(... done), then the success exit: cleanup and
\* res.json({ id, outputFormat, ok }).
PatchDone(j) ==
  /\ job[j].pc = "patchDone"
  /\ UNCHANGED blob
  /\ \/ /\ meta' = patchMeta(meta, job[j].ownerKey, job[j].id,
                 DonePatch(outKeyFor(job[j].ownerKey, job[j].id, job[j].ext)))
        /\ files' = Unlinked(job[j].id, job[j].ext)
        /\ Goto(j, "ok", Merge(Ended, [res |-> [code |-> 200, id |-> job[j].id,
                                                 outputFormat |-> job[j].ext]]))
     \/ /\ Throw(j, "ddb error")
        /\ UNCHANGED <<meta, files>>

\* The catch block: await patchMeta(... error), cleanup and
\* res.status(500).json({ error, details, id }).  A throw of that patch leaves
\* the handler with no cleanup and no response.
Catch(j) ==
  /\ job[j].pc = "catch"
  /\ UNCHANGED blob
  /\ \/ /\ meta' = patchMeta(meta, job[j].ownerKey, job[j].id,
                 ErrorPatch(job[j].err))
        /\ files' = Unlinked(job[j].id, job[j].ext)
        /\ Goto(j, "failed", Merge(Ended, [res |-> [code |-> 500, id |-> job[j].id,
                                                     details |-> job[j].err]]))
     \/ /\ Goto(j, "crashed", Ended)
        /\ UNCHANGED <<meta, files>>

Pipeline(j) ==
  \/ PatchDownloading(j) \/ GetObject(j) \/ PatchSource(j) \/ WriteSource(j)
  \/ PatchProcessing(j) \/ Ffmpeg(j) \/ Probe(j) \/ PatchProbe(j)
  \/ PatchUploading(j) \/ PutObject(j) \/ PatchDone(j) \/ Catch(j)

\* ------------------------------------------------------------- read side
\* What a read-side handler answers is a function of the table, the bucket
\* and the request; what it does to them is the effect of the commands it sends.

NotFound == [code |-> 404, error |-> "Not found"]

\* GET /status/:id
status(table, user, id) ==
  LET item == getMeta(table, ownerKeyFromReq(user), id)
  IN  IF item = NoItem THEN NotFound
      ELSE [code |-> 200, id |-> id,
            status |-> Field(item, "status", "unknown"),
            progress |-> Field(item, "progress", 0),
            outputFormat |-> Field(item, "outputFormat", NoStr),
            error |-> Field(item, "error", Null),
            uploadedAt |-> Field(item, "uploadedAt", Null),
            originalSizeBytes |->
              IF Field(item, "originalSizeBytes", Null) # Null
              THEN item.originalSizeBytes ELSE Field(item, "inputSizeBytes", Null),
            outputSizeBytes |->
              IF "outputSizeBytes" \in DOMAIN item
              THEN item.outputSizeBytes ELSE Field(item, "fileSize", Null)]

\* GET /list: the items of the fixed partition whose sort key begins with
\* ownerKey + '#', largest sort key first.
list(table, user) ==
  LET prefix == ownerKeyFromReq(user) \o <<"#">>
      keys   == Descending({ k \in DOMAIN table : StartsWith(k, prefix) })
  IN  [code |-> 200, items |-> [i \in 1..Len(keys) |-> table[keys[i]]]]

NotReady == [code |-> 404, error |-> "Not found or not ready"]

\* GET /presign-download/:id: a signed GET of the stored artifact.
presignDownload(table, user, id) ==
  LET item == getMeta(table, ownerKeyFromReq(user), id)
  IN  IF \/ item = NoItem
         \/ Field(item, "status", "") # "done"
         \/ ~Truthy(Field(item, "s3Bucket", NoStr))
         \/ ~Truthy(Field(item, "s3Key", NoStr))
      THEN NotReady
      ELSE LET found      == ExtName(item.s3Key)
               extFromKey == IF Truthy(found) THEN found
                             ELSE IF Truthy(Field(item, "outputFormat", NoStr))
                                  THEN item.outputFormat ELSE <<"mp4">>
               name       == IF Truthy(Field(item, "originalFilename", NoStr))
                             THEN item.originalFilename
                             ELSE <<"video", ".">> \o extFromKey
           IN  [code |-> 200,
                downloadUrl |-> [Bucket |-> item.s3Bucket, Key |-> item.s3Key,
                                 ResponseContentDisposition |->
                                   safeFilename(name, extFromKey)]]

\* GET /download/:id of the earlier router revision: the stored artifact
\* piped into the response.  NoReply when the GetObject rejects (the handler has
\* no catch).
replaceSlashes(name) ==
  [i \in 1..Len(name) |-> IF name[i] \in {"/", "\\"} THEN "_" ELSE name[i]]

RECURSIVE replaceSpaces(_)
replaceSpaces(name) ==
  IF name = <<>> THEN <<>>
  ELSE IF name[1] = " "
       THEN IF Len(name) > 1 /\ name[2] = " "
            THEN replaceSpaces(Tail(name))
            ELSE <<"_">> \o replaceSpaces(Tail(name))
       ELSE <<name[1]>> \o replaceSpaces(Tail(name))

download(table, bucket, user, id) ==
  LET item == getMeta(table, ownerKeyFromReq(user), id)
  IN  IF \/ item = NoItem
         \/ Field(item, "status", "") # "done"
         \/ ~Truthy(Field(item, "s3Bucket", NoStr))
         \/ ~Truthy(Field(item, "s3Key", NoStr))
      THEN NotReady
      ELSE LET ext  == IF Truthy(Field(item, "outputFormat", NoStr))
                       THEN item.outputFormat ELSE <<"mp4">>
               name == IF Truthy(Field(item, "originalFilename", NoStr))
                       THEN item.originalFilename
                       ELSE <<"video-">> \o id \o <<".">> \o ext
           IN  IF item.s3Key \notin DOMAIN bucket THEN NoReply
               ELSE [code |-> 200,
                     ContentDisposition |->
                       encodeURIComponent(replaceSpaces(replaceSlashes(name))),
                     ContentType |-> ContentTypeOf(ext),
                     Body |-> bucket[item.s3Key].Body]

\* The commands a read handler sends to the table and the bucket, in order.
GetCommand(ownerKey, id) ==
  [name |-> "GetCommand", Key |-> composeVideoId(ownerKey, id)]

statusCommands(table, user, id) == << GetCommand(ownerKeyFromReq(user), id) >>

listCommands(table, user) ==
  << [name |-> "QueryCommand", prefix |-> ownerKeyFromReq(user) \o <<"#">>] >>

\* getSignedUrl signs the GetObjectCommand locally: nothing is sent for it.
presignDownloadCommands(table, user, id) ==
  << GetCommand(ownerKeyFromReq(user), id) >>

\* Mutant: the download removes the artifact it has served.
downloadCommandsConsuming(table, user, id) ==
  LET item == getMeta(table, ownerKeyFromReq(user), id)
  IN  << GetCommand(ownerKeyFromReq(user), id) >> \o
      ( IF presignDownload(table, user, id).code = 200
        THEN << [name |-> "GetObjectCommand", Key |-> item.s3Key],
                [name |-> "DeleteObjectCommand", Key |-> item.s3Key] >>
        ELSE << >> )

downloadCommands(table, user, id) ==
  LET item == getMeta(table, ownerKeyFromReq(user), id)
  IN  << GetCommand(ownerKeyFromReq(user), id) >> \o
      ( IF presignDownload(table, user, id).code = 200
        THEN << [name |-> "GetObjectCommand", Key |-> item.s3Key] >>
        ELSE << >> )

\* What one command does to the table and the bucket.
send(store, cmd) ==
  CASE cmd.name \in {"GetCommand", "QueryCommand", "GetObjectCommand"} -> store
    [] cmd.name = "DeleteObjectCommand" ->
         [store EXCEPT !.blob = Without(@, {cmd.Key})]

RECURSIVE sendAll(_, _)
sendAll(store, cmds) ==
  IF cmds = <<>> THEN store ELSE sendAll(send(store, Head(cmds)), Tail(cmds))

\* A handler run that sends its commands; the scratch files and the running
\* jobs are not in its reach.  A command that rejects ends the run with an
\* error answer (or none) after a prefix of the commands.
Served(cmds) ==
  LET after == sendAll([meta |-> meta, blob |-> blob], cmds)
  IN  /\ meta' = after.meta
      /\ blob' = after.blob
      /\ UNCHANGED <<files, job, derived, ops>>

Status(user, id) ==
  /\ status(meta, user, id).code \in {200, 404}
  /\ Served(statusCommands(meta, user, id))

List(user) ==
  /\ list(meta, user).code = 200
  /\ Served(listCommands(meta, user))

PresignDownload(user, id) ==
  /\ presignDownload(meta, user, id).code \in {200, 404}
  /\ Served(presignDownloadCommands(meta, user, id))

Download(user, id) ==
  /\ download(meta, blob, user, id).code \in {0, 200, 404}
  /\ Served(downloadCommands(meta, user, id))

\* A request the middleware answers 401: no route handler runs.
Unauthorized(req) ==
  /\ authRequired(req).code = 401
  /\ UNCHANGED vars

\* Bodies of POST /start without the optional uploadedAt and originalSizeBytes.
Requests ==
  [s3Key : BodyKeys, format : Formats, originalFilename : Filenames,
   uploadedAt : {Null}, originalSizeBytes : {Null}]

Next ==
  \/ \E j \in Slots, user \in Users, body \in Requests, id \in newId :
        Start(j, user, body, id)
  \/ \E j \in Slots : Pipeline(j)
  \/ \E user \in Users, id \in ParamIds : Status(user, id)
  \/ \E user \in Users : List(user)
  \/ \E user \in Users, id \in ParamIds : PresignDownload(user, id)
  \/ \E user \in Users, id \in ParamIds : Download(user, id)
  \/ \E req \in Headers : Unauthorized(req)

Spec == Init /\ [][Next]_vars

\* ----------------------------------------------------------- properties

\* The record of the job in slot j, NoItem before its creation.
Rec(j) == getMeta(meta, job[j].ownerKey, job[j].id)

\* The requests of the owner of the job in slot j.
UsersOf(j) == { u \in Users : ownerKeyFromReq(u) = job[j].ownerKey }

Items(user) ==
  LET r == list(meta, user) IN { r.items[i] : i \in 1..Len(r.items) }

\* C1: GET /list for an owner returns only records whose ownerKey field is
\* that owner's key, never a record another owner created.
C1_ListOnlyOwn ==
  \A user \in Users : \A item \in Items(user) :
     item.ownerKey = ownerKeyFromReq(user)

\* C2: the source location POST /start fetches lies under the caller's own
\* <prefix>/<escaped ownerKey>/ path.
C2_SourceUnderOwnPath ==
  \A j \in Slots :
     job[j].pc = "patchSource" =>
        StartsWith(job[j].s3Key, ownerPath(job[j].ownerKey))

\* C3: GET /status/:id never answers with a record of another owner: the
\* lookup finds nothing (NotFound, as for an id no owner has) or the caller's
\* own record.
C3_StatusOnlyOwn ==
  \A user \in Users, id \in ParamIds :
     LET item == getMeta(meta, ownerKeyFromReq(user), id)
     IN  \/ item = NoItem /\ status(meta, user, id) = NotFound
         \/ item # NoItem /\ item.ownerKey = ownerKeyFromReq(user)

\* The jobs whose last step of ffmpeg closed with a non-zero exit code.
ExitedNonZero(j) == job[j].ffmpeg > 0

\* The handler of slot j is over: it has answered, or died without an answer.
Over(j) == job[j].pc \in {"ok", "failed", "crashed", "rejected"}

Writes ==
  { <<meta[k], meta'[k]>> : k \in { x \in DOMAIN meta : x \in DOMAIN meta' } }

NonTerminal == {"queued", "downloading", "processing", "uploading"}

C6_ProgressMonotonic ==
  [][\A w \in Writes :
        w[2].status # "error" => w[2].progress >= w[1].progress]_vars

C6_Witness ==
  \E j \in Slots :
     /\ job[j].pc = "putObject"
     /\ job[j].probe = "ok"
     /\ Rec(j).progress = 85

\* The stage after each status of the chain.
NextStatus(st) ==
  CASE st = "queued"      -> "downloading"
    [] st = "downloading" -> "processing"
    [] st = "processing"  -> "uploading"
    [] st = "uploading"   -> "done"
    [] OTHER              -> "none"

\* The progress the chain states for each status.
Milestone(st) ==
  CASE st = "queued"      -> 0
    [] st = "downloading" -> 5
    [] st = "processing"  -> 20
    [] st = "uploading"   -> 85
    [] st = "done"        -> 100
    [] OTHER              -> -1

\* A record is created queued, and its status stays, moves to the next stage
\* of the chain, or moves to error from a non-terminal status.
ChainStep ==
  /\ \A k \in DOMAIN meta' :
        k \notin DOMAIN meta => meta'[k].status = "queued" /\ meta'[k].progress = 0
  /\ \A w \in Writes :
        \/ w[2].status = w[1].status
        \/ w[2].status = NextStatus(w[1].status)
        \/ w[2].status = "error" /\ w[1].status \in NonTerminal

HasOutputLocation(r) ==
  /\ "s3Bucket" \in DOMAIN r /\ Truthy(r.s3Bucket)
  /\ "s3Key" \in DOMAIN r /\ Truthy(r.s3Key)

HasSomeOutputLocation(r) == "s3Bucket" \in DOMAIN r \/ "s3Key" \in DOMAIN r

\* C8: in every reachable state, a record's output location descriptor
\* (s3Bucket and s3Key) is populated if and only if its status is done.
C8_OutputLocationIffDone ==
  \A k \in DOMAIN meta :
     /\ HasOutputLocation(meta[k]) <=> meta[k].status = "done"
     /\ HasSomeOutputLocation(meta[k]) => HasOutputLocation(meta[k])

C8_Witness ==
  /\ \E k \in DOMAIN meta :
        meta[k].status = "done" /\ HasOutputLocation(meta[k])
  /\ \E k \in DOMAIN meta :
        meta[k].status = "error" /\ ~HasSomeOutputLocation(meta[k])

\* The probe step of slot j failed: the inspector's promise rejected, or the
\* probe's metadata patch threw.
ProbeFailed(j) == job[j].probe \in {"failed", "unpatched"}

\* The errors the stages after the probe can throw.
LaterErrors == {"ddb error", "s3 error", "ENOENT"}

\* C9: a job whose probe step fails goes on to the upload stage and, with
\* the later stages succeeding, ends done with progress 100; its record
\* carries none of width, height, codec, audioCodec, fps, duration, bitrate.
C9_ProbeFailureNotFatal ==
  \A j \in Slots :
     ProbeFailed(j) =>
        /\ DOMAIN Rec(j) \cap TechFields = {}
        /\ job[j].pc \in {"patchUploading", "putObject", "patchDone", "ok",
                          "catch", "failed", "crashed"}
        /\ job[j].pc = "patchUploading" =>
              Rec(j).status = "processing" /\ Rec(j).progress = 20
        /\ job[j].pc = "ok" =>
              Rec(j).status = "done" /\ Rec(j).progress = 100
        /\ job[j].pc \in {"catch", "failed", "crashed"} =>
              job[j].err \in LaterErrors

C9_Witness ==
  /\ \E j \in Slots : job[j].probe = "failed" /\ job[j].pc = "ok"
                         /\ Rec(j).status = "done"
  /\ \E j \in Slots : job[j].probe = "unpatched" /\ job[j].pc = "ok"
                         /\ Rec(j).status = "done"

\* The formats the transcoder has settings for.
Supported == { <<"mp4">>, <<"webm">>, <<"mov">> }

C11_UnsupportedFormatBecomesDefault ==
  \A j \in Slots :
     (job[j].pc \notin {"idle", "rejected"} /\ job[j].format \notin Supported) =>
        /\ job[j].ext = <<"mp4">>
        /\ Rec(j) # NoItem => Rec(j).outputFormat = <<"mp4">>
        /\ job[j].pc = "ok" => job[j].res.outputFormat = <<"mp4">>

\* The handler of slot j threw inside its try block.
Threw(j) == job[j].err # ""

\* C12: a start request that threw after its record was created, in any stage
\* or patch, the patch to error included, ends with a failure response that
\* carries the job id.
C12_FailureAnswered ==
  \A j \in Slots :
     (Threw(j) /\ Over(j)) =>
        /\ job[j].res.code = 500
        /\ job[j].res.id = job[j].id

\* No other request was given the id of the job in slot j.
Alone(j) == \A k \in Slots \ {j} : job[k].id # job[j].id

\* C13: when a start request is over, on the success path or a failure path,
\* neither its source scratch file nor its output scratch file exists.
C13_ScratchRemoved ==
  \A j \in Slots :
     (Over(j) /\ job[j].pc # "rejected" /\ Alone(j)) =>
        /\ inputPathOf(job[j].id) \notin DOMAIN files
        /\ outPathOf(job[j].id, job[j].ext) \notin DOMAIN files

\* The output location of the job in slot j.
OutKey(j) == outKeyFor(job[j].ownerKey, job[j].id, job[j].ext)

\* C14: an object is at a job's output location only after that job's
\* transcoder has exited with code 0; no publish comes before or without a
\* successful invocation of the same job.
C14_PublishAfterExitZero ==
  \A j \in Slots :
     OutKey(j) \in DOMAIN blob =>
        /\ job[j].ffmpeg = 0
        /\ job[j].pc \in {"patchDone", "ok", "catch", "failed", "crashed"}

C14_Witness ==
  /\ \E j \in Slots : /\ job[j].pc = "patchDone"
                      /\ job[j].ffmpeg = 0
                      /\ OutKey(j) \in DOMAIN blob
  /\ \E j \in Slots : /\ job[j].pc = "failed"
                      /\ job[j].ffmpeg = 1
                      /\ OutKey(j) \notin DOMAIN blob

\* C15: jobs of different owners do not interact, whatever ids they are
\* given: from the moment a job has written its source scratch file until it
\* runs its transcoder, that file exists and holds what the job wrote.
C15_ScratchFilesOwn ==
  \A j \in Slots :
     job[j].pc \in {"patchProcessing", "ffmpeg"} =>
        /\ inputPathOf(job[j].id) \in DOMAIN files
        /\ files[inputPathOf(job[j].id)] = job[j].srcBody

\* ------------------------------------------------- the store helpers alone
\* putMeta and patchMeta called with any arguments on any table they can
\* build, apart from the pipeline that calls them in a fixed order.

\* Job ids passed to the helpers.
StoreIds == { <<"1">>, <<"b", "#", "1">> }

\* Items passed to putMeta.
StoreItems == { [status |-> "queued", progress |-> 0, createdAt |-> "now"] }

\* Update maps passed to patchMeta: empty, naming only key attributes, naming
\* key attributes among others, naming none.
StoreUpdates ==
  { <<>>,
    [pk |-> <<"other">>],
    [pk |-> <<"other">>, videoId |-> <<"x">>],
    [videoId |-> <<"x">>, status |-> "done"],
    [progress |-> 5],
    [status |-> "error", progress |-> 0] }

PutMeta(ownerKey, id, item) ==
  /\ meta' = putMeta(meta, ownerKey, NoStr, id, item)
  /\ UNCHANGED <<blob, files, job, derived, ops>>

PatchMeta(ownerKey, id, updates) ==
  /\ meta' = patchMeta(meta, ownerKey, id, updates)
  /\ UNCHANGED <<blob, files, job, derived, ops>>

StoreNext ==
  \/ \E o \in OwnerKeys, id \in StoreIds, item \in StoreItems : PutMeta(o, id, item)
  \/ \E o \in OwnerKeys, id \in StoreIds, u \in StoreUpdates : PatchMeta(o, id, u)

StoreSpec == Init /\ [][StoreNext]_vars

\* C16: patch(ownerKey, jobId, fields) on a job that has no record leaves the
\* metadata store unchanged: it creates no record.
C16_PatchOfMissingChangesNothing ==
  [][\A o \in OwnerKeys, id \in StoreIds, u \in StoreUpdates :
        (composeVideoId(o, id) \notin DOMAIN meta /\ PatchMeta(o, id, u))
           => meta' = meta]_vars

\* C17: create(ownerKey, jobId, fields) for a composite key that already has
\* a record leaves the existing record unchanged.
C17_CreateOfExistingChangesNothing ==
  [][\A o \in OwnerKeys, id \in StoreIds, item \in StoreItems :
        (composeVideoId(o, id) \in DOMAIN meta /\ PutMeta(o, id, item))
           => meta' = meta]_vars

KeyAttributes == {"pk", "videoId"}

\* C18: patch(ownerKey, jobId, fields) never changes the partition key or the
\* composite key of a record, even when fields names them, leaves every field
\* it does not name, and every other record, as it was, and writes nothing
\* when fields is empty or names only key attributes.
C18_PatchFrame ==
  [][\A o \in OwnerKeys, id \in StoreIds, u \in StoreUpdates :
        PatchMeta(o, id, u) =>
           /\ \A k \in DOMAIN meta :
                 /\ k \in DOMAIN meta'
                 /\ meta'[k].pk = meta[k].pk
                 /\ meta'[k].videoId = meta[k].videoId
                 /\ \A f \in DOMAIN meta[k] \ DOMAIN u : meta'[k][f] = meta[k][f]
                 /\ k # composeVideoId(o, id) => meta'[k] = meta[k]
           /\ \A k \in DOMAIN meta' :
                 meta'[k].pk = FIXED_PK_VAL /\ meta'[k].videoId = k
           /\ DOMAIN u \subseteq KeyAttributes => meta' = meta]_vars

C18_Witness ==
  \E k \in DOMAIN meta :
     /\ "createdAt" \in DOMAIN meta[k]
     /\ meta[k].status = "done"
     /\ meta[k].progress = 5
     /\ meta[k].pk = FIXED_PK_VAL
     /\ meta[k].videoId = k

\* The store after the first n commands of a handler run.
AfterPrefixes(cmds) ==
  { sendAll([meta |-> meta, blob |-> blob], SubSeq(cmds, 1, n)) : n \in 0..Len(cmds) }

\* C19: a run of GET /status, /list, /presign-download or the streamed
\* /download leaves the metadata table and the bucket as they were, whether it
\* answers or fails (a failing run has sent a prefix of its commands).
C19_ReadsWriteNothing ==
  \A user \in Users, id \in ParamIds :
     /\ AfterPrefixes(statusCommands(meta, user, id)) = {[meta |-> meta, blob |-> blob]}
     /\ AfterPrefixes(listCommands(meta, user)) = {[meta |-> meta, blob |-> blob]}
     /\ AfterPrefixes(presignDownloadCommands(meta, user, id))
           = {[meta |-> meta, blob |-> blob]}
     /\ AfterPrefixes(downloadCommands(meta, user, id))
           = {[meta |-> meta, blob |-> blob]}

C19_Witness ==
  \E user \in Users, id \in ParamIds, other \in ParamIds :
     /\ status(meta, user, id).code = 200
     /\ presignDownload(meta, user, id).code = 200
     /\ download(meta, blob, user, id).code = 200
     /\ Len(list(meta, user).items) > 0
     /\ presignDownload(meta, user, other).code = 404

\* The three kinds of request that must be turned away: no bearer token, a
\* token that is not a verified token of this client, a token with no identity.
NoBearer(req) == req.scheme # "Bearer"

FailsVerification(req) ==
  \/ ~req.token.signed
  \/ ~ \/ req.token.payload.token_use = "access" /\ req.token.payload.client_id = CLIENT_ID
       \/ req.token.payload.token_use = "id" /\ req.token.payload.aud = CLIENT_ID

NoOwnerKey(req) ==
  /\ req.token.payload.email = NoStr
  /\ req.token.payload.username = NoStr
  /\ req.token.payload.sub = NoStr

MustReject(req) == NoBearer(req) \/ FailsVerification(req) \/ NoOwnerKey(req)

\* The identity a request asks to act as.
ClaimedKey(req) ==
  LET p == req.token.payload
  IN  ToLower(IF p.email # NoStr THEN p.email
              ELSE IF p.username # NoStr THEN p.username ELSE p.sub)

\* The owner keys that only requests to be turned away ask for.
RefusedKeys ==
  { ClaimedKey(r) : r \in { q \in Headers : MustReject(q) } }
     \ { ClaimedKey(r) : r \in { q \in Headers : ~MustReject(q) } }

\* C20: a request with no bearer token, with a token that fails verification,
\* or with no identity is answered 401 by the middleware, so no handler runs
\* for it: no job, no record, no object and no scratch file is ever made
\* under the identity it asked for.
C20_RejectedBeforeAnyEffect ==
  /\ \A req \in Headers : MustReject(req) => authRequired(req).code = 401
  /\ \A j \in Slots :
        job[j].pc \notin {"idle", "rejected"} => job[j].ownerKey \notin RefusedKeys
  /\ \A k \in DOMAIN meta : \A o \in RefusedKeys : ~StartsWith(k, o \o <<"#">>)
  /\ \A k \in DOMAIN blob : \A o \in RefusedKeys : ~StartsWith(k, ownerPath(o))

C20_Witness ==
  /\ \E req \in Headers : NoBearer(req) /\ authRequired(req).code = 401
  /\ \E req \in Headers :
        ~NoBearer(req) /\ FailsVerification(req) /\ authRequired(req).code = 401
  /\ \E req \in Headers :
        ~NoBearer(req) /\ ~FailsVerification(req) /\ NoOwnerKey(req)
           /\ authRequired(req).code = 401
  /\ \E j \in Slots : job[j].pc = "ok"
  /\ meta # <<>>

\* ------------------------------------------------- identity derivation alone
\* Any route behind authRequired: the middleware sets req.user and the handler
\* calls ownerKeyFromReq.  The key is recorded under the token's account.
Identify(req) ==
  /\ authRequired(req).code = 0
  /\ LET user == authRequired(req).user
     IN  derived' = [derived EXCEPT ![user.sub] = @ \cup {ownerKeyFromReq(user)}]
  /\ UNCHANGED <<meta, blob, files, job, ops>>

IdentityNext ==
  \/ \E req \in LoginHeaders : Identify(req)
  \/ \E req \in Headers : Unauthorized(req)

IdentitySpec == Init /\ [][IdentityNext]_vars

\* C21: the ownership key derived for a user is the same on every request of
\* that user, whichever kind of verified token the request presents.
C21_OneKeyPerUser ==
  \A s \in Subs : Cardinality(derived[s]) <= 1

\* C22: two distinct users never derive the same ownership key.
C22_KeysDisjointAcrossUsers ==
  \A s, t \in Subs : s # t => derived[s] \cap derived[t] = {}

\* C23: no derived ownership key contains the delimiter '#'.
C23_NoDelimiterInKey ==
  \A s \in Subs : \A k \in derived[s] : \A i \in 1..Len(k) : k[i] # "#"

\* C24: the download filename on the published artifact's disposition ends
\* in the target format's extension, whatever the original filename was.
C24_DownloadNameHasTargetExt ==
  \A j \in Slots :
     (OutKey(j) \in DOMAIN blob /\ "ContentDisposition" \in DOMAIN blob[OutKey(j)]) =>
        ExtName(blob[OutKey(j)].ContentDisposition) = job[j].ext

\* The jobs of a caller whose record has been created.
Created(user) ==
  { j \in Slots : /\ job[j].pc \notin {"idle", "rejected"}
                  /\ job[j].ownerKey = ownerKeyFromReq(user)
                  /\ Rec(j) # NoItem }

\* C25: GET /list returns one record per job the caller has started, the job
\* started later first.
C25_ListIsOwnJobsNewestFirst ==
  \A user \in Users :
     LET items == list(meta, user).items
     IN  /\ Len(items) = Cardinality(Created(user))
         /\ \A i, k \in 1..Len(items) :
               i < k => ~StrLess(items[i].videoId, items[k].videoId)

\* The caller's own finished job `id`: a record made by the caller for that id,
\* done, with an output location.
OwnDone(user, id) ==
  \E k \in DOMAIN meta :
     /\ Field(meta[k], "ownerKey", NoStr) = ownerKeyFromReq(user)
     /\ Field(meta[k], "id", NoStr) = id
     /\ Field(meta[k], "status", "") = "done"
     /\ Truthy(Field(meta[k], "s3Key", NoStr))

\* C26: GET /presign-download and the streamed GET /download hand out the
\* artifact only for the caller's own finished job; otherwise they answer
\* not found.
C26_HandleOnlyForOwnDone ==
  \A user \in Users, id \in ParamIds :
     /\ presignDownload(meta, user, id).code = 200 => OwnDone(user, id)
     /\ download(meta, blob, user, id).code = 200 => OwnDone(user, id)

\* The persisted status of the job in slot j.
StatusOf(j) == Field(Rec(j), "status", "")

\* C27: a stage's status is in the record before the stage's risky operation
\* starts: downloading before the source fetch, processing before the
\* transcoder runs, uploading before the publish; done only after the publish.
C27_StagePersistedFirst ==
  \A j \in Slots :
     /\ job[j].pc = "getObject" => StatusOf(j) = "downloading"
     /\ job[j].pc = "ffmpeg" => StatusOf(j) = "processing"
     /\ job[j].pc = "putObject" => StatusOf(j) = "uploading"
     /\ (job[j].pc \notin {"idle", "rejected"} /\ StatusOf(j) = "done") =>
           OutKey(j) \in DOMAIN blob

C27_Witness ==
  /\ \E j \in Slots : job[j].pc = "putObject" /\ StatusOf(j) = "uploading"
  /\ \E j \in Slots : job[j].pc = "ok" /\ StatusOf(j) = "done"

\* C28: a record with status done names the output location composed from
\* its own owner key, job id and output format, and the published object is
\* there.
C28_DoneMeansPublished ==
  \A k \in DOMAIN meta :
     Field(meta[k], "status", "") = "done" =>
        /\ {"ownerKey", "id", "outputFormat", "s3Bucket", "s3Key"} \subseteq DOMAIN meta[k]
        /\ meta[k].s3Bucket = S3_BUCKET
        /\ meta[k].s3Key = outKeyFor(meta[k].ownerKey, meta[k].id, meta[k].outputFormat)
        /\ meta[k].s3Key \in DOMAIN blob

C28_Witness ==
  \E k \in DOMAIN meta :
     /\ Field(meta[k], "status", "") = "done"
     /\ meta[k].outputFormat = <<"avi">>
     /\ meta[k].s3Key \in DOMAIN blob

\* Every awaited call of a running handler eventually returns or throws.
FairSpec == Spec /\ \A j \in Slots : WF_vars(Pipeline(j))

\* C29: every job whose record was created eventually has status done or
\* error in its record.
C29_EveryJobSettles ==
  \A j \in Slots :
     (job[j].pc \notin {"idle", "rejected"} /\ Rec(j) # NoItem)
        ~> (StatusOf(j) \in {"done", "error"})

\* C30: a record has an error message exactly when its status is error, and
\* the message is that of the exception that stopped the job's pipeline.
C30_ErrorMessageIffError ==
  /\ \A k \in DOMAIN meta :
        "error" \in DOMAIN meta[k] <=> Field(meta[k], "status", "") = "error"
  /\ \A j \in Slots :
        (job[j].pc \notin {"idle", "rejected"} /\ StatusOf(j) = "error") =>
           /\ Threw(j)
           /\ Rec(j).error = job[j].err

C30_Witness ==
  \E j \in Slots :
     /\ StatusOf(j) = "error"
     /\ Rec(j).error = "ffmpeg failed: 1"
     /\ job[j].ffmpeg = 1

\* ------------------------------------------- one job with the optional fields
\* POST /start with a client-supplied uploadedAt and originalSizeBytes, one
\* job at a time.
StampRequests ==
  [s3Key : BodyKeys, format : {<<"webm">>}, originalFilename : Filenames,
   uploadedAt : {Null, "2020-01-01", "yesterday"},
   originalSizeBytes : {Null, "7"}]

StampNext ==
  \/ \E user \in Users, body \in StampRequests, id \in newId : Start(1, user, body, id)
  \/ \E j \in Slots : Pipeline(j)

StampSpec == Init /\ [][StampNext]_vars

\* The positions of a handler whose download stage has succeeded.
AfterDownload ==
  {"writeSource", "patchProcessing", "ffmpeg", "probe", "patchProbe",
   "patchUploading", "putObject", "patchDone", "ok"}

\* C31: after the download stage the stored uploadedAt is the client's
\* timestamp when the client sent a valid one and the source object's
\* last-modified time otherwise; a client-supplied originalSizeBytes is kept.
C31_UploadedAtClientOrObserved ==
  \A j \in Slots :
     job[j].pc \in AfterDownload =>
        /\ IF job[j].uploadedAt # Null /\ ValidDate(job[j].uploadedAt)
           THEN Rec(j).uploadedAt = toISOString(job[j].uploadedAt)
           ELSE Rec(j).uploadedAt = "s3time"
        /\ job[j].originalSizeBytes # Null =>
              Rec(j).originalSizeBytes = job[j].originalSizeBytes

\* ------------------------------------------------------- object keys alone
\* Objects written under the two key schemes, for owner keys of any shape.
MaxObjects == 3

\* Owner keys with the characters the key scheme must cope with.
KeyOwners ==
  { <<"a">>, <<"a", "#", "b">>, <<"a", "%", "2", "3", "b">>,
    <<"a", "/", "b">>, <<"a", "%", "2", "F", "b">>, <<"a", "/", "uploads">> }

\* File names sent to POST /presign-upload.
UploadNames == { <<"in", ".", "mov">>, <<"output", ".", "webm">>, <<"1", "/", "output", ".", "webm">> }

KeyInit ==
  /\ meta = <<>>
  /\ blob = <<>>
  /\ files = <<>>
  /\ job = [j \in Slots |-> IdleJob]
  /\ derived = [s \in Subs |-> {}]
  /\ secrets = [pc |-> "idle"] /\ dynamo = [pc |-> "idle"] /\ wipe = [pc |-> "idle"]

\* The publish of a job's output: PutObject at outKeyFor(ownerKey, id, ext).
Publish(ownerKey, id, ext) ==
  /\ Cardinality(DOMAIN blob) < MaxObjects
  /\ blob' = (outKeyFor(ownerKey, id, ext) :>
                [kind |-> "output", ownerKey |-> ownerKey, id |-> id]) @@ blob
  /\ UNCHANGED <<meta, files, job, derived, ops>>

\* An upload through the URL POST /presign-upload has signed.
Upload(ownerKey, ts, filename) ==
  /\ Cardinality(DOMAIN blob) < MaxObjects
  /\ blob' = (uploadKeyFor(ownerKey, ts, filename) :>
                [kind |-> "upload", ownerKey |-> ownerKey, id |-> ts]) @@ blob
  /\ UNCHANGED <<meta, files, job, derived, ops>>

KeyNext ==
  \/ \E o \in KeyOwners, id \in newId, ext \in {<<"webm">>, <<"mp4">>} : Publish(o, id, ext)
  \/ \E o \in KeyOwners, name \in UploadNames : Upload(o, <<"t0">>, name)

KeySpec == KeyInit /\ [][KeyNext]_vars

\* C32: distinct (ownerKey, jobId) pairs have distinct output paths, and no
\* output path is an upload path: the object at a path is the output of the
\* one job, or the upload, that the path was composed for.
C32_OutputPathsCollisionFree ==
  \A k \in DOMAIN blob :
     /\ \A o \in KeyOwners, id \in newId, ext \in {<<"webm">>, <<"mp4">>} :
           outKeyFor(o, id, ext) = k =>
              blob[k].kind = "output" /\ blob[k].ownerKey = o /\ blob[k].id = id
     /\ \A o \in KeyOwners, name \in UploadNames :
           uploadKeyFor(o, <<"t0">>, name) = k => blob[k].kind = "upload"

C32_Witness ==
  /\ outKeyFor(<<"a", "#", "b">>, <<"1">>, <<"webm">>) \in DOMAIN blob
  /\ outKeyFor(<<"a", "%", "2", "3", "b">>, <<"1">>, <<"webm">>) \in DOMAIN blob
  /\ uploadKeyFor(<<"a">>, <<"t0">>, <<"1", "/", "output", ".", "webm">>) \in DOMAIN blob

\* ------------------------------------------------ the client secret (secrets.js)
\* The clock runs from 0 to MaxClock; at most MaxCalls calls are in flight.
MaxClock == 3

MaxCalls == 2

Callers == 1..MaxCalls

\* Values of ttlMs a caller passes, in ticks of the clock.
Ttls == {1, 2}

\* What Secrets Manager holds under SECRET_ID: a JSON object with the key, a
\* JSON value without it, text that is not JSON, or nothing.
SecretPayloads ==
  { [kind |-> "json", text |-> "{v1}", secret |-> "v1"],
    [kind |-> "json", text |-> "{v2}", secret |-> "v2"],
    [kind |-> "json", text |-> "{}", secret |-> Null],
    [kind |-> "text", text |-> "plain", secret |-> Null],
    [kind |-> "empty", text |-> "", secret |-> Null] }

\* let _cache = { value: null, ts: 0 }
EmptyCache == [value |-> Null, ts |-> 0]

IdleCall == [pc |-> "idle", via |-> "get", now |-> 0]

\* What the last call to end has returned: a cache hit also records the age of
\* the cached value, the ttlMs it was tested against and whether the call is
\* the first one made since clearSecretCache.
Outcome(kind, value) ==
  [kind |-> kind, value |-> value, age |-> 0, ttlMs |-> 0, afterClear |-> FALSE]

NoOutcome == Outcome("none", Null)

\* fetchSecretRaw(secretId): the raw payload, or a throw when the request
\* fails or the payload is empty.
fetchSecretRaw(payload, transport) ==
  IF transport = "fails" THEN Thrown
  ELSE IF payload.text = "" THEN Thrown
  ELSE [ok |-> TRUE, raw |-> payload]

\* try { JSON.parse(raw)?.COGNITO_CLIENT_SECRET ?? null } catch { raw }
secretValueOrRaw(raw) == IF raw.secret # Null THEN raw.secret ELSE raw.text

secretValue(raw) == IF raw.kind = "json" THEN raw.secret ELSE raw.text

\* A step of secrets.js: nothing else of the service moves.
Secrets(next) ==
  /\ secrets' = next
  /\ UNCHANGED <<meta, blob, files, job, derived, dynamo, wipe>>

\* A caller's outcome that ends its call.
Returns(c, outcome) ==
  /\ secrets.call[c].pc = "fetching"
  /\ Secrets([secrets EXCEPT !.call[c] = IdleCall, !.out = outcome,
        !.cache = IF outcome.kind = "fetched"
                  THEN [value |-> outcome.value, ts |-> secrets.call[c].now] ELSE @,
        !.env = IF outcome.kind = "fetched" /\ secrets.call[c].via = "hydrate"
                THEN outcome.value ELSE @])

\* getCognitoClientSecret({ ttlMs }) up to its await: a cached value younger
\* than ttlMs is returned at once, otherwise the fetch is sent.
getCognitoClientSecret(c, ttlMs, via) ==
  /\ secrets.call[c].pc = "idle"
  /\ IF secrets.cache.value # Null /\ secrets.now - secrets.cache.ts < ttlMs
     THEN Secrets([secrets EXCEPT !.cleared = FALSE,
            !.out = [kind |-> "cached", value |-> secrets.cache.value,
                     age |-> secrets.now - secrets.cache.ts, ttlMs |-> ttlMs,
                     afterClear |-> secrets.cleared],
            !.env = IF via = "hydrate" THEN secrets.cache.value ELSE @])
     ELSE Secrets([secrets EXCEPT !.cleared = FALSE,
            !.call[c] = [pc |-> "fetching", via |-> via, now |-> secrets.now]])

\* getCognitoClientSecret after its await: the fetch has settled.
Fetched(c, transport) ==
  LET r == fetchSecretRaw(secrets.store, transport)
  IN  IF ~r.ok \/ secretValue(r.raw) = Null
      THEN Returns(c, Outcome("error", Null))
      ELSE Returns(c, Outcome("fetched", secretValue(r.raw)))

\* clearSecretCache()
clearSecretCache ==
  /\ secrets' = [secrets EXCEPT !.cache = EmptyCache, !.cleared = TRUE]
  /\ UNCHANGED <<meta, blob, files, job, derived, dynamo, wipe>>

\* hydrateEnvFromSecretsManager(opts)
hydrateEnvFromSecretsManager(c, ttlMs) ==
  IF secrets.env # Null
  THEN /\ secrets.call[c].pc = "idle"
       /\ Secrets([secrets EXCEPT !.out = Outcome("kept", secrets.env)])
  ELSE getCognitoClientSecret(c, ttlMs, "hydrate")

\* Date.now() advances.
Tick ==
  /\ secrets.now < MaxClock
  /\ Secrets([secrets EXCEPT !.now = @ + 1])

\* The secret is rotated in Secrets Manager.
Rotate(payload) ==
  /\ payload # secrets.store
  /\ Secrets([secrets EXCEPT !.store = payload])

SecretInit ==
  /\ meta = <<>> /\ blob = <<>> /\ files = <<>>
  /\ job = [j \in Slots |-> IdleJob]
  /\ derived = [s \in Subs |-> {}]
  /\ dynamo = [pc |-> "idle"] /\ wipe = [pc |-> "idle"]
  /\ \E payload \in SecretPayloads, env \in {Null, "preset"} :
       secrets = [cache |-> EmptyCache, now |-> 0, store |-> payload, env |-> env,
                  call |-> [c \in Callers |-> IdleCall], out |-> NoOutcome,
                  cleared |-> FALSE]

SecretNext ==
  \/ \E c \in Callers, ttlMs \in Ttls : getCognitoClientSecret(c, ttlMs, "get")
  \/ \E c \in Callers, ttlMs \in Ttls : hydrateEnvFromSecretsManager(c, ttlMs)
  \/ \E c \in Callers, transport \in {"answers", "fails"} : Fetched(c, transport)
  \/ clearSecretCache
  \/ Tick
  \/ \E payload \in SecretPayloads : Rotate(payload)

SecretSpec == SecretInit /\ [][SecretNext]_vars

\* C33: getCognitoClientSecret answers from the cache, without a fetch, only
\* while a value is cached and younger than ttlMs; and the first call made
\* after clearSecretCache does not answer from the cache, it fetches.
C33_CacheHitOnlyFreshAndNotCleared ==
  secrets.out.kind = "cached" =>
    /\ secrets.out.value # Null
    /\ secrets.out.age < secrets.out.ttlMs
    /\ ~secrets.out.afterClear

\* What holds of C33 whatever the interleaving: a cache hit returns a cached
\* value younger than ttlMs.
C33_CacheHitIsFresh ==
  secrets.out.kind = "cached" =>
    secrets.out.value # Null /\ secrets.out.age < secrets.out.ttlMs

\* A call that finds no value, or one as old as ttlMs, sends the fetch; when
\* the fetch succeeds the cache holds its value under the time of the call.
C33_FetchRefillsCache ==
  [][\A c \in Callers :
       /\ (secrets.call[c].pc = "idle" /\ secrets'.call[c].pc = "fetching") =>
            \/ secrets.cache.value = Null
            \/ \E ttlMs \in Ttls : secrets.now - secrets.cache.ts >= ttlMs
       /\ (secrets.call[c].pc = "fetching" /\ secrets'.out.kind = "fetched"
             /\ secrets'.call[c].pc = "idle") =>
            secrets'.cache = [value |-> secrets'.out.value, ts |-> secrets.call[c].now]
    ]_vars

\* The fetch of a call cannot yield a secret: the request fails, the payload
\* is empty, or it is JSON without the key COGNITO_CLIENT_SECRET.
FetchFails(transport) ==
  \/ transport = "fails"
  \/ secrets.store.text = ""
  \/ secrets.store.kind = "json" /\ secrets.store.secret = Null

\* C34: a call whose fetch fails raises an error and leaves the cache as it
\* was; and hydrateEnvFromSecretsManager, called while COGNITO_CLIENT_SECRET
\* is set in the environment, leaves it (and the cache) as they are.
C34_FailedFetchKeepsCacheAndEnvOverrideKept ==
  [][/\ \A c \in Callers, transport \in {"answers", "fails"} :
          (FetchFails(transport) /\ Fetched(c, transport)) =>
             /\ secrets'.out.kind = "error"
             /\ secrets'.cache = secrets.cache
             /\ secrets'.env = secrets.env
     /\ \A c \in Callers, ttlMs \in Ttls :
          (secrets.env # Null /\ hydrateEnvFromSecretsManager(c, ttlMs)) =>
             /\ secrets'.env = secrets.env
             /\ secrets'.cache = secrets.cache
             /\ secrets'.call = secrets.call
    ]_vars

\* A fetch has failed while a value was cached, and the value is still cached.
C34_Witness ==
  /\ secrets.out.kind = "error"
  /\ secrets.cache.value # Null
  /\ secrets.env = "preset"

\* ------------------------------------------- the metadata table (initDynamo.js)
EXPECTED_KEYS == << <<"qut-username", "HASH">>, <<"videoId", "RANGE">> >>

\* Key schemas a live table may have.
KeySchemas ==
  { EXPECTED_KEYS,
    << <<"videoId", "RANGE">>, <<"qut-username", "HASH">> >>,
    << <<"qut-username", "RANGE">>, <<"videoId", "HASH">> >>,
    << <<"userId", "HASH">>, <<"videoId", "RANGE">> >>,
    << <<"qut-username", "HASH">> >>,
    << <<"videoId", "HASH">> >>,
    << >> }

NoTable == [exists |-> FALSE, KeySchema |-> << >>]

Tables == {NoTable} \cup { [exists |-> TRUE, KeySchema |-> k] : k \in KeySchemas }

\* Values of process.env.ALLOW_TABLE_RECREATE; << >> when it is not set.
RecreateFlags == { << >>, <<"true">>, <<"TRUE">>, <<"True">>, <<"false">>, <<"1">> }

RecreateWhenSet(flag) == flag # << >>

\* String(process.env.ALLOW_TABLE_RECREATE || '').toLowerCase() === 'true'
RECREATE(flag) == ToLower(flag) = <<"true">>

sameKeySchema(a, b) ==
  /\ Len(a) = Len(b)
  /\ \A i \in 1..Len(a) : a[i][1] = b[i][1] /\ a[i][2] = b[i][2]

\* A step of initDynamo.js: nothing else of the service moves.
Dynamo(next) ==
  /\ dynamo' = next
  /\ UNCHANGED <<meta, blob, files, job, derived, secrets, wipe>>

\* ensureVideoMetadataTable up to the answer of DescribeTable.
Describe(outcome) ==
  /\ dynamo.pc = "describe"
  /\ IF outcome = "fails" THEN Dynamo([dynamo EXCEPT !.pc = "thrown"])
     ELSE IF ~dynamo.live.exists THEN Dynamo([dynamo EXCEPT !.pc = "createMissing"])
     ELSE IF sameKeySchema(dynamo.live.KeySchema, EXPECTED_KEYS)
       THEN Dynamo([dynamo EXCEPT !.pc = "returned"])
     ELSE IF ~RECREATE(dynamo.flag) THEN Dynamo([dynamo EXCEPT !.pc = "returned"])
     ELSE Dynamo([dynamo EXCEPT !.pc = "delete"])

\* await ddb.send(new DeleteTableCommand(...)), then the 4 s wait.
DeleteTable(outcome) ==
  /\ dynamo.pc = "delete"
  /\ IF outcome = "fails"
     THEN Dynamo([dynamo EXCEPT !.pc = "thrown", !.sent = @ \cup {"DeleteTable"}])
     ELSE Dynamo([dynamo EXCEPT !.pc = "create", !.sent = @ \cup {"DeleteTable"},
                                !.live = NoTable, !.deleted = TRUE])

\* createTable(), after the delete or from the catch of ResourceNotFoundException.
createTable(outcome) ==
  /\ dynamo.pc \in {"create", "createMissing"}
  /\ IF outcome = "fails"
     THEN Dynamo([dynamo EXCEPT !.pc = "thrown", !.sent = @ \cup {"CreateTable"}])
     ELSE Dynamo([dynamo EXCEPT !.pc = "returned", !.sent = @ \cup {"CreateTable"},
                                !.live = [exists |-> TRUE, KeySchema |-> EXPECTED_KEYS]])

DynamoInit ==
  /\ meta = <<>> /\ blob = <<>> /\ files = <<>>
  /\ job = [j \in Slots |-> IdleJob]
  /\ derived = [s \in Subs |-> {}]
  /\ secrets = [pc |-> "idle"] /\ wipe = [pc |-> "idle"]
  /\ \E live \in Tables, flag \in RecreateFlags :
       dynamo = [pc |-> "describe", live |-> live, found |-> live, flag |-> flag,
                 sent |-> {}, deleted |-> FALSE]

DynamoNext ==
  \/ \E outcome \in {"answers", "fails"} : Describe(outcome)
  \/ \E outcome \in {"answers", "fails"} : DeleteTable(outcome)
  \/ \E outcome \in {"answers", "fails"} : createTable(outcome)

DynamoSpec == DynamoInit /\ [][DynamoNext]_vars

\* C35: ensureVideoMetadataTable sends DeleteTable only when the table exists
\* with a key schema other than the expected one and ALLOW_TABLE_RECREATE is
\* 'true'; in every other case the live table is never deleted.
C35_DeleteOnlyOnMismatchWithFlag ==
  ("DeleteTable" \in dynamo.sent \/ dynamo.deleted) =>
    /\ dynamo.found.exists
    /\ dynamo.found.KeySchema # EXPECTED_KEYS
    /\ ToLower(dynamo.flag) = <<"true">>

\* A mismatching table has been deleted and created again with the expected keys.
C35_Witness ==
  /\ dynamo.pc = "returned"
  /\ dynamo.deleted
  /\ dynamo.found.KeySchema = << <<"videoId", "RANGE">>, <<"qut-username", "HASH">> >>
  /\ dynamo.live.KeySchema = EXPECTED_KEYS

\* ------------------------------------------- the wipe script (ddb_verify_pk.js)
\* The user has at most MaxItems items in the table.
MaxItems == 27

\* DynamoDB BatchWrite supports up to 25 actions per call.
ChunkSize == 25

\* while (unprocessed.length && attempt < 5)
Retrying(unprocessed, attempt) == unprocessed > 0 /\ attempt < 5

CountedWhole(chunk, unprocessed) == chunk

\* chunk.length - (unprocessed.length || 0)
Counted(chunk, unprocessed) == chunk - unprocessed

includesAny(arr, x) == Len(arr) > 0

\* Array.prototype.includes
includes(arr, x) == \E i \in 1..Len(arr) : arr[i] = x

\* The arguments after the command word: process.argv.slice(3).
WipeArgs == { << >>, <<"--yes">>, <<"-y">>, <<"--YES">>, <<"--dry", "--yes">> }

Min(a, b) == IF a < b THEN a ELSE b

\* A step of the script: nothing of the service moves.
Script(next) ==
  /\ wipe' = next
  /\ UNCHANGED <<meta, blob, files, job, derived, secrets, dynamo>>

\* main, case 'wipe', and cmdWipe up to the answer of queryAllForUser.
cmdWipe(outcome) ==
  /\ wipe.pc = "main"
  /\ LET yes == includes(wipe.rest, "--yes")
         items == wipe.store
     IN  IF outcome = "fails" THEN Script([wipe EXCEPT !.pc = "failed"])
         ELSE IF items = 0 THEN Script([wipe EXCEPT !.pc = "exit"])
         ELSE IF ~yes THEN Script([wipe EXCEPT !.pc = "exit", !.items = items])
         ELSE Script([wipe EXCEPT !.pc = "send", !.items = items])

\* The end of one pass of the retry loop of batchDelete: retry, or count the
\* chunk and go to the next one, or return.
Looped(w) ==
  IF Retrying(w.unprocessed, w.attempt) THEN [w EXCEPT !.pc = "retry"]
  ELSE LET counted == [w EXCEPT !.deleted = @ + Counted(w.chunk, w.unprocessed),
                                !.left = @ + w.unprocessed, !.i = @ + ChunkSize]
       IN  [counted EXCEPT !.pc = IF counted.i < counted.items THEN "send" ELSE "done"]

\* batchDelete: the BatchWrite of the chunk items.slice(i, i + 25); the store
\* deletes all but `unprocessed` of the requests.
BatchWrite(unprocessed, outcome) ==
  /\ wipe.pc = "send"
  /\ LET chunk == Min(ChunkSize, wipe.items - wipe.i)
     IN  /\ unprocessed \in 0..chunk
         /\ IF outcome = "fails"
            THEN Script([wipe EXCEPT !.pc = "failed", !.chunk = chunk, !.calls = 1,
                                     !.requested = chunk])
            ELSE Script(Looped([wipe EXCEPT !.chunk = chunk, !.calls = 1,
                    !.requested = chunk, !.attempt = 0, !.unprocessed = unprocessed,
                    !.store = @ - (chunk - unprocessed)]))

\* batchDelete: the wait and the BatchWrite of the unprocessed requests.
RetryWrite(unprocessed, outcome) ==
  /\ wipe.pc = "retry"
  /\ unprocessed \in 0..wipe.unprocessed
  /\ IF outcome = "fails"
     THEN Script([wipe EXCEPT !.pc = "failed", !.calls = @ + 1,
                              !.requested = wipe.unprocessed])
     ELSE Script(Looped([wipe EXCEPT !.calls = @ + 1, !.attempt = @ + 1,
             !.requested = wipe.unprocessed, !.unprocessed = unprocessed,
             !.store = @ - (wipe.unprocessed - unprocessed)]))

WipeInit ==
  /\ meta = <<>> /\ blob = <<>> /\ files = <<>>
  /\ job = [j \in Slots |-> IdleJob]
  /\ derived = [s \in Subs |-> {}]
  /\ secrets = [pc |-> "idle"] /\ dynamo = [pc |-> "idle"]
  /\ \E store \in 0..MaxItems, rest \in WipeArgs :
       wipe = [pc |-> "main", rest |-> rest, store |-> store, found |-> store,
               items |-> 0, i |-> 0, chunk |-> 0, unprocessed |-> 0, attempt |-> 0,
               deleted |-> 0, left |-> 0, calls |-> 0, requested |-> 0]

WipeNext ==
  \/ \E outcome \in {"answers", "fails"} : cmdWipe(outcome)
  \/ \E unprocessed \in 0..ChunkSize, outcome \in {"answers", "fails"} :
       BatchWrite(unprocessed, outcome)
  \/ \E unprocessed \in 0..ChunkSize, outcome \in {"answers", "fails"} :
       RetryWrite(unprocessed, outcome)

WipeSpec == WipeInit /\ [][WipeNext]_vars

\* The script's one thread of control keeps running: every await settles.
WipeFairSpec == WipeSpec /\ WF_vars(WipeNext)

\* C36: batchDelete terminates whatever the store reports as unprocessed; for
\* each chunk it sends at most one BatchWrite and 5 retries, of at most 25
\* requests each; and the count it returns leaves out the requests still
\* unprocessed after the last retry (so it is the number of items deleted).
C36_BatchDeleteBoundedAndCountsProcessed ==
  /\ [](/\ wipe.calls <= 1 + 5
        /\ wipe.requested <= 25
        /\ wipe.pc = "done" =>
             /\ wipe.deleted = wipe.items - wipe.left
             /\ wipe.deleted = wipe.found - wipe.store)
  /\ <>(wipe.pc \in {"done", "failed", "exit"})

\* batchDelete has returned after two chunks, the store having reported
\* unprocessed requests after every one of the 6 calls of the last chunk.
C36_Witness ==
  /\ wipe.pc = "done"
  /\ wipe.items > 25
  /\ wipe.calls = 6
  /\ wipe.left > 0
  /\ wipe.deleted > 0

\* C37: without --yes among its arguments the wipe command sends no delete
\* request and the store keeps every item, however many there are.
C37_NoDeleteWithoutYes ==
  (\A i \in 1..Len(wipe.rest) : wipe.rest[i] # "--yes") =>
    /\ wipe.calls = 0
    /\ wipe.requested = 0
    /\ wipe.store = wipe.found
    /\ wipe.pc \in {"main", "exit", "failed"}

\* The command has ended without --yes, all of the user's items still stored.
C37_Witness ==
  /\ wipe.pc = "exit"
  /\ wipe.rest = <<"-y">>
  /\ wipe.items = MaxItems
  /\ wipe.store = MaxItems

====
